---- MODULE Spec2Model ----
(***************************************************************************)
(* Model of the inventory store of src/main.py: class                      *)
(* BloodManagementSystem (the in-memory inventory and record log, the      *)
(* validation rules of add_blood / remove_blood / delete_blood_type) and   *)
(* its persistence round trip through the file DATA_FILE.                  *)
(*                                                                         *)
(* Python values are modelled as follows: a dict is a function, a list a   *)
(* sequence, an int an integer, a str a string.  The content of the file   *)
(* is modelled as the JSON document it spells (a tree of tagged JSON       *)
(* values), or as one of the ways a file can fail to be such a document.   *)
(***************************************************************************)
EXTENDS Integers, Sequences, FiniteSets, TLC

VARIABLES blood_inventory, donation_records, file, call, result,
          deleted_at, held

vars == <<blood_inventory, donation_records, file, call, result, deleted_at, held>>

(***************************************************************************)
(* Bounds of the model and the inputs the operations are called with.      *)
(***************************************************************************)
MaxUnits == 2
MaxRecords == 2

\* The literal list of add_blood (main.py line 37).
BloodTypes == {"A+", "A-", "B+", "B-", "AB+", "AB-", "O+", "O-"}

\* Blood types the callers pass: two of the enumeration and one outside it.
TypeInputs == {"A+", "O-", "C+"}
\* Unit counts the callers pass: negative, zero, the least positive count and
\* the greatest count of the model.
UnitInputs == {-1, 0, 1, MaxUnits}
\* The donor and recipient names the callers pass: a blank name.
NameInputs == {""}
\* The reading of the clock, in seconds of one fixed minute.
ClockInputs == {7}

(***************************************************************************)
(* Text formatting.                                                        *)
(***************************************************************************)
Digits == <<"0", "1", "2", "3", "4", "5", "6", "7", "8", "9">>

RECURSIVE nat_str(_)
nat_str(n) == IF n < 10 THEN Digits[n + 1]
              ELSE nat_str(n \div 10) \o Digits[(n % 10) + 1]

\* str(n) of an int, as the f-strings of the messages format it.
int_str(n) == IF n < 0 THEN "-" \o nat_str(-n) ELSE nat_str(n)

\* datetime.now().strftime("%Y-%m-%d %H:%M:%S"), for a clock reading of
\* `now` seconds into one fixed minute.
strftime(now) == "2026-11-04 07:15:" \o (IF now < 10 THEN "0" ELSE "") \o nat_str(now)

(***************************************************************************)
(* JSON documents.                                                         *)
(***************************************************************************)
JObject(members) == [t |-> "object", members |-> members]
JArray(items) == [t |-> "array", items |-> items]
JNumber(n) == [t |-> "number", v |-> n]
JString(s) == [t |-> "string", v |-> s]
JNull == [t |-> "null"]

EmptyDict == [k \in {} |-> 0]
EmptyList == << >>

\* The states of the path DATA_FILE.
FileMissing == [kind |-> "missing"]
FileUnreadable == [kind |-> "unreadable"]
FileNotText == [kind |-> "undecodable"]
FileNotJson == [kind |-> "garbage"]
FileJson(doc) == [kind |-> "json", doc |-> doc]

\* json.load: the Python value of a JSON document.
RECURSIVE json_load(_)
json_load(jv) ==
    CASE jv.t = "object" -> [k \in DOMAIN jv.members |-> json_load(jv.members[k])]
      [] jv.t = "array" -> [i \in 1 .. Len(jv.items) |-> json_load(jv.items[i])]
      [] jv.t = "number" -> jv.v
      [] jv.t = "string" -> jv.v

\* json.dump of the three shapes _save_data writes.
\* A dump that leaves out the entries whose count is 0.
dump_inventory_nonzero(inv) ==
    JObject([k \in {t \in DOMAIN inv : inv[t] # 0} |-> JNumber(inv[k])])

dump_inventory(inv) == JObject([k \in DOMAIN inv |-> JNumber(inv[k])])

dump_record(r) ==
    JObject([k \in DOMAIN r |-> IF k = "units" THEN JNumber(r[k]) ELSE JString(r[k])])

dump_records(recs) == JArray([i \in 1 .. Len(recs) |-> dump_record(recs[i])])

\* dict.get(key, default)
dict_get(d, key, default) == IF key \in DOMAIN d THEN d[key] ELSE default

(***************************************************************************)
(* Persistence.                                                            *)
(***************************************************************************)
NoException == "none"

\* _save_data: the file content after a write that succeeds.
_save_data(inv, recs) ==
    FileJson(JObject([k \in {"blood_inventory", "donation_records"} |->
                         IF k = "blood_inventory" THEN dump_inventory(inv)
                         ELSE dump_records(recs)]))

\* _load_data on a store holding inv0 and recs0: the fields afterwards and
\* the exception that leaves the method, if any.
_load_data(f, inv0, recs0) ==
    CASE f.kind = "missing" ->
            [blood_inventory |-> inv0, donation_records |-> recs0, raised |-> NoException]
      [] f.kind = "unreadable" ->
            [blood_inventory |-> EmptyDict, donation_records |-> EmptyList, raised |-> NoException]
      [] f.kind = "garbage" ->
            [blood_inventory |-> EmptyDict, donation_records |-> EmptyList, raised |-> NoException]
      [] f.kind = "undecodable" ->
            [blood_inventory |-> inv0, donation_records |-> recs0, raised |-> "UnicodeDecodeError"]
      [] f.kind = "json" /\ f.doc.t # "object" ->
            [blood_inventory |-> inv0, donation_records |-> recs0, raised |-> "AttributeError"]
      [] f.kind = "json" /\ f.doc.t = "object" ->
            LET data == json_load(f.doc) IN
            [blood_inventory |-> dict_get(data, "blood_inventory", EmptyDict),
             donation_records |-> dict_get(data, "donation_records", EmptyList),
             raised |-> NoException]

\* BloodManagementSystem(): the fields start empty, then _load_data runs.
__init__(f) == _load_data(f, EmptyDict, EmptyList)

(***************************************************************************)
(* The operations of the store, as functions of the store's fields.  Each  *)
(* yields the fields afterwards, the file afterwards and the value the     *)
(* call returns.                                                           *)
(***************************************************************************)
Returned(success, message) == [kind |-> "returned", success |-> success, message |-> message]
Raised(exc) == [kind |-> "raised", exc |-> exc]
Constructed == [kind |-> "constructed"]

Outcome(inv, recs, f, res) ==
    [blood_inventory |-> inv, donation_records |-> recs, file |-> f, result |-> res]

\* units <= 0, the check of add_blood and of remove_blood.
InvalidUnitsNegativeOnly(units) == units < 0

InvalidUnits(units) == units <= 0

\* self.blood_inventory[blood_type] < units
InsufficientStockUnchecked(inv, blood_type, units) == FALSE

InsufficientStock(inv, blood_type, units) == inv[blood_type] < units

InsufficientStockResultRequested(inv, blood_type, units) ==
    Returned(FALSE, "Insufficient stock. Available: " \o int_str(units) \o " units")

InsufficientStockResult(inv, blood_type, units) ==
    Returned(FALSE, "Insufficient stock. Available: " \o int_str(inv[blood_type]) \o " units")

\* The inventory after add_blood has created the entry, if absent, and added
\* the units to it.
CreditOverwrites(inv, blood_type, units) ==
    [k \in DOMAIN inv \cup {blood_type} |-> IF k = blood_type THEN units ELSE inv[k]]

Credit(inv, blood_type, units) ==
    LET inv0 == IF blood_type \notin DOMAIN inv
                THEN [k \in DOMAIN inv \cup {blood_type} |->
                         IF k = blood_type THEN 0 ELSE inv[k]]
                ELSE inv
    IN [inv0 EXCEPT ![blood_type] = @ + units]

\* A debit that drops the entry when its count reaches 0.
DebitDropsEmpty(inv, blood_type, units) ==
    IF inv[blood_type] = units
    THEN [k \in DOMAIN inv \ {blood_type} |-> inv[k]]
    ELSE [inv EXCEPT ![blood_type] = @ - units]

\* A debit that adds the units instead of taking them.
DebitAdds(inv, blood_type, units) == [inv EXCEPT ![blood_type] = @ + units]

\* self.blood_inventory[blood_type] -= units
Debit(inv, blood_type, units) == [inv EXCEPT ![blood_type] = @ - units]

DonationRecord(blood_type, units, donor_name, now) ==
    [blood_type |-> blood_type,
     units |-> units,
     donor_name |-> donor_name,
     timestamp |-> strftime(now),
     type |-> "donation"]

\* A usage record that files the recipient under donor_name.
UsageRecordDonorField(blood_type, units, recipient_name, now) ==
    [blood_type |-> blood_type,
     units |-> units,
     donor_name |-> recipient_name,
     timestamp |-> strftime(now),
     type |-> "usage"]

UsageRecord(blood_type, units, recipient_name, now) ==
    [blood_type |-> blood_type,
     units |-> units,
     recipient_name |-> recipient_name,
     timestamp |-> strftime(now),
     type |-> "usage"]

\* add_blood that creates the entry before it checks the units.
add_blood_creates_entry_first(inv, recs, f, blood_type, units, donor_name, now) ==
    IF blood_type \notin BloodTypes
    THEN Outcome(inv, recs, f, Returned(FALSE, "Invalid blood type"))
    ELSE IF InvalidUnits(units)
    THEN Outcome(Credit(inv, blood_type, 0), recs, f,
                 Returned(FALSE, "Units must be greater than 0"))
    ELSE
        LET inv1 == Credit(inv, blood_type, units)
            recs1 == Append(recs, DonationRecord(blood_type, units, donor_name, now))
        IN Outcome(inv1, recs1, _save_data(inv1, recs1),
                   Returned(TRUE, "Successfully added " \o int_str(units)
                                  \o " units of " \o blood_type))

\* add_blood without the check of the blood type.
add_blood_any_type(inv, recs, f, blood_type, units, donor_name, now) ==
    IF InvalidUnits(units)
    THEN Outcome(inv, recs, f, Returned(FALSE, "Units must be greater than 0"))
    ELSE
        LET inv1 == Credit(inv, blood_type, units)
            recs1 == Append(recs, DonationRecord(blood_type, units, donor_name, now))
        IN Outcome(inv1, recs1, _save_data(inv1, recs1),
                   Returned(TRUE, "Successfully added " \o int_str(units)
                                  \o " units of " \o blood_type))

add_blood(inv, recs, f, blood_type, units, donor_name, now) ==
    IF blood_type \notin BloodTypes
    THEN Outcome(inv, recs, f, Returned(FALSE, "Invalid blood type"))
    ELSE IF InvalidUnits(units)
    THEN Outcome(inv, recs, f, Returned(FALSE, "Units must be greater than 0"))
    ELSE
        LET inv1 == Credit(inv, blood_type, units)
            recs1 == Append(recs, DonationRecord(blood_type, units, donor_name, now))
        IN Outcome(inv1, recs1, _save_data(inv1, recs1),
                   Returned(TRUE, "Successfully added " \o int_str(units)
                                  \o " units of " \o blood_type))

\* remove_blood with the check of the units before the check of the type.
remove_blood_units_first(inv, recs, f, blood_type, units, recipient_name, now) ==
    IF InvalidUnits(units)
    THEN Outcome(inv, recs, f, Returned(FALSE, "Units must be greater than 0"))
    ELSE IF blood_type \notin DOMAIN inv
    THEN Outcome(inv, recs, f,
                 Returned(FALSE, "Blood type " \o blood_type \o " not available"))
    ELSE IF InsufficientStock(inv, blood_type, units)
    THEN Outcome(inv, recs, f, InsufficientStockResult(inv, blood_type, units))
    ELSE
        LET inv1 == Debit(inv, blood_type, units)
            recs1 == Append(recs, UsageRecord(blood_type, units, recipient_name, now))
        IN Outcome(inv1, recs1, _save_data(inv1, recs1),
                   Returned(TRUE, "Successfully removed " \o int_str(units)
                                  \o " units of " \o blood_type))

remove_blood(inv, recs, f, blood_type, units, recipient_name, now) ==
    IF blood_type \notin DOMAIN inv
    THEN Outcome(inv, recs, f,
                 Returned(FALSE, "Blood type " \o blood_type \o " not available"))
    ELSE IF InvalidUnits(units)
    THEN Outcome(inv, recs, f, Returned(FALSE, "Units must be greater than 0"))
    ELSE IF InsufficientStock(inv, blood_type, units)
    THEN Outcome(inv, recs, f, InsufficientStockResult(inv, blood_type, units))
    ELSE
        LET inv1 == Debit(inv, blood_type, units)
            recs1 == Append(recs, UsageRecord(blood_type, units, recipient_name, now))
        IN Outcome(inv1, recs1, _save_data(inv1, recs1),
                   Returned(TRUE, "Successfully removed " \o int_str(units)
                                  \o " units of " \o blood_type))

DeletedResult(blood_type, units) ==
    Returned(TRUE, "Deleted " \o blood_type \o " (" \o int_str(units) \o " units removed)")

\* delete_blood_type that sets the entry to 0 and keeps its key.
delete_blood_type_zeroes(inv, recs, f, blood_type) ==
    IF blood_type \notin DOMAIN inv
    THEN Outcome(inv, recs, f,
                 Returned(FALSE, "Blood type " \o blood_type \o " not found"))
    ELSE
        LET units == inv[blood_type]
            inv1 == [inv EXCEPT ![blood_type] = 0]
        IN Outcome(inv1, recs, _save_data(inv1, recs), DeletedResult(blood_type, units))

\* delete_blood_type that also drops the records of the deleted type.
delete_blood_type_purges(inv, recs, f, blood_type) ==
    IF blood_type \notin DOMAIN inv
    THEN Outcome(inv, recs, f,
                 Returned(FALSE, "Blood type " \o blood_type \o " not found"))
    ELSE
        LET units == inv[blood_type]
            inv1 == [k \in DOMAIN inv \ {blood_type} |-> inv[k]]
            recs1 == SelectSeq(recs, LAMBDA r : r.blood_type # blood_type)
        IN Outcome(inv1, recs1, _save_data(inv1, recs1), DeletedResult(blood_type, units))

\* delete_blood_type without its call of _save_data.
delete_blood_type_unsaved(inv, recs, f, blood_type) ==
    IF blood_type \notin DOMAIN inv
    THEN Outcome(inv, recs, f,
                 Returned(FALSE, "Blood type " \o blood_type \o " not found"))
    ELSE
        LET units == inv[blood_type]
            inv1 == [k \in DOMAIN inv \ {blood_type} |-> inv[k]]
        IN Outcome(inv1, recs, f, DeletedResult(blood_type, units))

\* delete_blood_type that empties the inventory.
delete_blood_type_clears(inv, recs, f, blood_type) ==
    IF blood_type \notin DOMAIN inv
    THEN Outcome(inv, recs, f,
                 Returned(FALSE, "Blood type " \o blood_type \o " not found"))
    ELSE
        LET units == inv[blood_type]
            inv1 == EmptyDict
        IN Outcome(inv1, recs, _save_data(inv1, recs), DeletedResult(blood_type, units))

delete_blood_type(inv, recs, f, blood_type) ==
    IF blood_type \notin DOMAIN inv
    THEN Outcome(inv, recs, f,
                 Returned(FALSE, "Blood type " \o blood_type \o " not found"))
    ELSE
        LET units == inv[blood_type]
            inv1 == [k \in DOMAIN inv \ {blood_type} |-> inv[k]]
        IN Outcome(inv1, recs, _save_data(inv1, recs), DeletedResult(blood_type, units))

get_inventory(inv) == inv

get_records(recs) == recs

(***************************************************************************)
(* The state machine: the store is constructed over some file, then the    *)
(* caller invokes one operation after the other; the program may be        *)
(* started again at any point between two operations.                      *)
(***************************************************************************)
\* What DATA_FILE may hold when the program first starts.
InitialFiles ==
    {FileMissing, FileUnreadable, FileNotText, FileNotJson,
     FileJson(JArray(<< >>)), FileJson(JNull), FileJson(JObject(EmptyDict))}

\* The last call of the caller: the operation and its arguments.
CallInit == [op |-> "__init__"]
CallAdd(blood_type, units) == [op |-> "add_blood", blood_type |-> blood_type, units |-> units]
CallRemove(blood_type, units) == [op |-> "remove_blood", blood_type |-> blood_type, units |-> units]
CallDelete(blood_type) == [op |-> "delete_blood_type", blood_type |-> blood_type]

\* What the caller holds of the values the accessors have returned: nothing,
\* or a reference to one of the fields of the store together with the content
\* the field had when the reference was returned.
NotHeld == [ref |-> "none"]
Held(ref, taken) == [ref |-> ref, taken |-> taken]

\* History: for each blood type, the length the log had when the entry of the
\* type was last removed by delete_blood_type (0 when it never was).
NeverDeleted == [t \in BloodTypes |-> 0]

\* deleted_at after a delete_blood_type of outcome o.
MarkDeleted(o, blood_type) ==
    IF blood_type \in BloodTypes /\ blood_type \in DOMAIN blood_inventory
                                /\ blood_type \notin DOMAIN o.blood_inventory
    THEN [deleted_at EXCEPT ![blood_type] = Len(donation_records)]
    ELSE deleted_at

\* A store exists: its construction did not raise.
StoreUp == ~(call.op = "__init__" /\ result.kind = "raised")

Construct(f) ==
    \E s \in {__init__(f)} :
    /\ blood_inventory' = s.blood_inventory
    /\ donation_records' = s.donation_records
    /\ file' = f
    /\ call' = CallInit
    /\ result' = IF s.raised = NoException THEN Constructed ELSE Raised(s.raised)
    /\ held' = NotHeld
    /\ deleted_at' = IF s.blood_inventory = blood_inventory /\ s.donation_records = donation_records
                     THEN deleted_at
                     ELSE NeverDeleted

Init ==
    \E f \in InitialFiles :
        \E s \in {__init__(f)} :
        /\ blood_inventory = s.blood_inventory
        /\ donation_records = s.donation_records
        /\ file = f
        /\ call = CallInit
        /\ result = IF s.raised = NoException THEN Constructed ELSE Raised(s.raised)
        /\ held = NotHeld
        /\ deleted_at = NeverDeleted

Apply(o) ==
    /\ Len(o.donation_records) <= MaxRecords
    /\ blood_inventory' = o.blood_inventory
    /\ donation_records' = o.donation_records
    /\ file' = o.file
    /\ result' = o.result
    /\ UNCHANGED held

AddBlood ==
    \E blood_type \in TypeInputs, units \in UnitInputs,
       donor_name \in NameInputs, now \in ClockInputs :
        /\ StoreUp
        /\ call' = CallAdd(blood_type, units)
        /\ \E o \in {add_blood(blood_inventory, donation_records, file,
                            blood_type, units, donor_name, now)} : Apply(o)
        /\ UNCHANGED deleted_at

RemoveBlood ==
    \E blood_type \in TypeInputs, units \in UnitInputs,
       recipient_name \in NameInputs, now \in ClockInputs :
        /\ StoreUp
        /\ call' = CallRemove(blood_type, units)
        /\ \E o \in {remove_blood(blood_inventory, donation_records, file,
                               blood_type, units, recipient_name, now)} : Apply(o)
        /\ UNCHANGED deleted_at

DeleteBloodType ==
    \E blood_type \in TypeInputs :
        /\ StoreUp
        /\ call' = CallDelete(blood_type)
        /\ \E o \in {delete_blood_type(blood_inventory, donation_records, file,
                                    blood_type)} :
               /\ Apply(o)
               /\ deleted_at' = MarkDeleted(o, blood_type)

\* The program is started again: a new store is constructed over the file.
Restart == Construct(file)

Next == AddBlood \/ RemoveBlood \/ DeleteBloodType \/ Restart

Spec == Init /\ [][Next]_vars

(***************************************************************************)
(* Writes that fail.  _save_data opens DATA_FILE for writing, which         *)
(* truncates it, and then writes the document; either step may raise       *)
(* OSError, which _save_data and the operation that called it let through.  *)
(***************************************************************************)
\* The file, as _load_data reads it, holds the inventory and the records of
\* the store.
FileMatchesMemory ==
    \A s \in {__init__(file)} :
    /\ s.raised = NoException
    /\ s.blood_inventory = blood_inventory
    /\ s.donation_records = donation_records

\* A write fails only while the file holds what the store holds: the model
\* lets at most one failed write stand between two writes that succeed.
WriteMayFail == StoreUp /\ FileMatchesMemory

\* The step of _save_data that raises: open(DATA_FILE, "w"), or the writing
\* of the document into the opened file.
WriteFailures == {"open", "write"}

\* The file after a _save_data that raised: as it was when open raised, and
\* truncated or cut short, hence no JSON document, when the writing raised.
_save_data_fails(f, failure) == IF failure = "open" THEN f ELSE FileNotJson

\* An operation that swallows the exception of _save_data and returns its
\* success value.
SaveFailsSwallowed(o, f, failure) ==
    IF o.result.success
    THEN Outcome(o.blood_inventory, o.donation_records, _save_data_fails(f, failure),
                 o.result)
    ELSE o

\* The outcome of an operation whose call of _save_data raises, given its
\* outcome o when the write succeeds and the file f before the call: the
\* fields are mutated already, the exception leaves the operation before its
\* return statement.  An operation that fails validation never calls
\* _save_data.
SaveFails(o, f, failure) ==
    IF o.result.success
    THEN Outcome(o.blood_inventory, o.donation_records, _save_data_fails(f, failure),
                 Raised("OSError"))
    ELSE o

AddBloodWriteFails ==
    /\ WriteMayFail
    /\ \E blood_type \in TypeInputs, units \in UnitInputs,
       donor_name \in NameInputs, now \in ClockInputs, failure \in WriteFailures :
        /\ call' = CallAdd(blood_type, units)
        /\ \E o \in {add_blood(blood_inventory, donation_records, file,
                            blood_type, units, donor_name, now)} :
               /\ o.result.success
               /\ Apply(SaveFails(o, file, failure))
        /\ UNCHANGED deleted_at

RemoveBloodWriteFails ==
    /\ WriteMayFail
    /\ \E blood_type \in TypeInputs, units \in UnitInputs,
       recipient_name \in NameInputs, now \in ClockInputs, failure \in WriteFailures :
        /\ call' = CallRemove(blood_type, units)
        /\ \E o \in {remove_blood(blood_inventory, donation_records, file,
                               blood_type, units, recipient_name, now)} :
               /\ o.result.success
               /\ Apply(SaveFails(o, file, failure))
        /\ UNCHANGED deleted_at

DeleteBloodTypeWriteFails ==
    /\ WriteMayFail
    /\ \E blood_type \in TypeInputs, failure \in WriteFailures :
        /\ call' = CallDelete(blood_type)
        /\ \E o \in {delete_blood_type(blood_inventory, donation_records, file,
                                    blood_type)} :
               /\ o.result.success
               /\ Apply(SaveFails(o, file, failure))
               /\ deleted_at' = MarkDeleted(o, blood_type)

NextWriteFail ==
    \/ Next
    \/ AddBloodWriteFails
    \/ RemoveBloodWriteFails
    \/ DeleteBloodTypeWriteFails

\* The store with writes that may fail.
SpecWriteFail == Init /\ [][NextWriteFail]_vars

(***************************************************************************)
(* The accessors.  get_inventory and get_records return the dictionary and *)
(* the list the store itself works on, not copies: what the caller holds   *)
(* is a reference to the field, whose content is the field's content.      *)
(***************************************************************************)
CallGetInventory == [op |-> "get_inventory"]
CallGetRecords == [op |-> "get_records"]
CallClear(ref) == [op |-> "clear", ref |-> ref]

\* The result of an accessor: the reference it returned.
ReturnedReference(ref) == [kind |-> "reference", ref |-> ref]

\* What the holder h of a returned value reads in it, the fields of the store
\* being inv and recs.
SeenThrough(h, inv, recs) ==
    IF h.ref = "blood_inventory" THEN get_inventory(inv)
    ELSE IF h.ref = "donation_records" THEN get_records(recs)
    ELSE h

GetInventory ==
    /\ StoreUp
    /\ call' = CallGetInventory
    /\ result' = ReturnedReference("blood_inventory")
    /\ held' = Held("blood_inventory", get_inventory(blood_inventory))
    /\ UNCHANGED <<blood_inventory, donation_records, file, deleted_at>>

GetRecords ==
    /\ StoreUp
    /\ call' = CallGetRecords
    /\ result' = ReturnedReference("donation_records")
    /\ held' = Held("donation_records", get_records(donation_records))
    /\ UNCHANGED <<blood_inventory, donation_records, file, deleted_at>>

\* The caller empties the dictionary it holds (dict.clear): the dictionary is
\* the field of the store, and nothing is saved.  A caller that holds the list
\* can do the same to the log; the model leaves that write out because the
\* length of the log is what bounds a run.
CallerClears ==
    /\ StoreUp
    /\ held.ref = "blood_inventory"
    /\ SeenThrough(held, blood_inventory, donation_records) # EmptyDict
    /\ call' = CallClear(held.ref)
    /\ blood_inventory' = EmptyDict
    /\ UNCHANGED <<donation_records, file, result, deleted_at, held>>

NextAlias ==
    \/ Next
    \/ GetInventory
    \/ GetRecords
    \/ CallerClears

\* The store with a caller that keeps what the accessors return.
SpecAlias == Init /\ [][NextAlias]_vars

(***************************************************************************)
(* Properties.                                                             *)
(***************************************************************************)
\* The balance of a blood type, an absent entry counting as 0.
Balance(inv, blood_type) == IF blood_type \in DOMAIN inv THEN inv[blood_type] ELSE 0

IsPrefix(s, t) == Len(s) <= Len(t) /\ SubSeq(t, 1, Len(s)) = s

Succeeded == result.kind = "returned" /\ result.success
Failed == result.kind = "returned" /\ ~result.success

PositiveUnits == {u \in UnitInputs : u > 0}
NonPositiveUnits == {u \in UnitInputs : u <= 0}

\* C1: every entry of the inventory has a unit count of at least 0, after
\* any sequence of add_blood, remove_blood and delete_blood_type calls on a
\* store that started empty.
C1_UnitCountNonNegative ==
    \A k \in DOMAIN blood_inventory : blood_inventory[k] >= 0

\* remove_blood has just taken the last MaxUnits units of an entry, which
\* stays in the inventory with 0 units.
C1_Witness ==
    /\ call.op = "remove_blood"
    /\ Succeeded
    /\ call.blood_type \in DOMAIN blood_inventory
    /\ blood_inventory[call.blood_type] = 0
    /\ call.units = MaxUnits

\* C2: remove_blood of more units than the balance of an existing entry
\* (units > 0) returns failure with the message reporting exactly the
\* current balance, and changes neither the inventory nor the record log.
C2_InsufficientStockRefused ==
    \A blood_type \in DOMAIN blood_inventory, units \in PositiveUnits,
       recipient_name \in NameInputs, now \in ClockInputs :
        units > blood_inventory[blood_type] =>
            \A o \in {remove_blood(blood_inventory, donation_records, file,
                                    blood_type, units, recipient_name, now)} :
               /\ o.result = Returned(FALSE, "Insufficient stock. Available: "
                                   \o int_str(blood_inventory[blood_type]) \o " units")
               /\ o.blood_inventory = blood_inventory
               /\ o.donation_records = donation_records

\* remove_blood of MaxUnits units was just refused on an entry that holds 1
\* unit, while another entry and a record exist.
C2_Witness ==
    /\ call.op = "remove_blood"
    /\ call.units = MaxUnits
    /\ Failed
    /\ result.message = "Insufficient stock. Available: 1 units"
    /\ call.blood_type \in DOMAIN blood_inventory
    /\ blood_inventory[call.blood_type] = 1
    /\ Cardinality(DOMAIN blood_inventory) = 2
    /\ Len(donation_records) > 0

\* C3: from every reachable state, for every blood type of the enumeration
\* and every units > 0, add_blood followed by remove_blood of the same type
\* and units both succeed, the balance of the type returns to what it was
\* before the add, and the log grows by exactly a donation and then a usage
\* record of that type and units.
C3_AddThenRemoveRestores ==
    \A blood_type \in BloodTypes, units \in PositiveUnits,
       donor_name \in NameInputs, recipient_name \in NameInputs,
       now1 \in ClockInputs, now2 \in ClockInputs :
        \A a \in {add_blood(blood_inventory, donation_records, file,
                             blood_type, units, donor_name, now1)} :
        \A b \in {remove_blood(a.blood_inventory, a.donation_records, a.file,
                                blood_type, units, recipient_name, now2)} :
        LET n == Len(donation_records)
        IN /\ a.result.success
           /\ b.result.success
           /\ Balance(b.blood_inventory, blood_type) = Balance(blood_inventory, blood_type)
           /\ Len(b.donation_records) = n + 2
           /\ SubSeq(b.donation_records, 1, n) = donation_records
           /\ b.donation_records[n + 1].type = "donation"
           /\ b.donation_records[n + 1].blood_type = blood_type
           /\ b.donation_records[n + 1].units = units
           /\ b.donation_records[n + 2].type = "usage"
           /\ b.donation_records[n + 2].blood_type = blood_type
           /\ b.donation_records[n + 2].units = units

\* remove_blood has just succeeded right after the add_blood of the same type
\* and units: the log ends with that donation and that usage.
C3_Witness ==
    /\ call.op = "remove_blood"
    /\ Succeeded
    /\ Len(donation_records) >= 2
    /\ LET n == Len(donation_records) IN
        /\ donation_records[n - 1].type = "donation"
        /\ donation_records[n - 1].blood_type = call.blood_type
        /\ donation_records[n - 1].units = call.units
        /\ donation_records[n].type = "usage"
        /\ donation_records[n].blood_type = call.blood_type
        /\ donation_records[n].units = call.units

\* C4: the record log is append-only: every step leaves the log before it a
\* prefix of the log after it; a successful add_blood or remove_blood
\* appends exactly one record, and delete_blood_type and every failed call
\* leave the log as it was.
C4_Step ==
    /\ IsPrefix(donation_records, donation_records')
    /\ (call'.op \in {"add_blood", "remove_blood"} /\ Succeeded')
           => Len(donation_records') = Len(donation_records) + 1
    /\ (call'.op = "delete_blood_type" \/ Failed')
           => donation_records' = donation_records

C4_LogAppendOnly == [][C4_Step]_vars

\* A blood type has just been deleted and the log still holds a record of it.
C4_Witness ==
    /\ call.op = "delete_blood_type"
    /\ Succeeded
    /\ Len(donation_records) = MaxRecords
    /\ \E i \in 1 .. Len(donation_records) :
           donation_records[i].blood_type = call.blood_type

\* C5: whenever an operation has returned, the file as _load_data reads it
\* holds the inventory and the record log of the store, and a store
\* constructed anew starts with the inventory and the records of the store
\* before it.
C5_RestartStep ==
    call'.op = "__init__" =>
        /\ blood_inventory' = blood_inventory
        /\ donation_records' = donation_records

C5_Durable == [](StoreUp => FileMatchesMemory) /\ [][C5_RestartStep]_vars

\* A store was constructed anew after mutations that left an entry and
\* records, one of them of a type since deleted.
C5_Witness ==
    /\ call.op = "__init__"
    /\ result.kind = "constructed"
    /\ DOMAIN blood_inventory # {}
    /\ \E i \in 1 .. Len(donation_records) :
           donation_records[i].blood_type \notin DOMAIN blood_inventory

\* C6: _save_data followed by _load_data in a fresh store yields the
\* inventory and the record sequence that were saved, for every inventory
\* and record sequence the store reaches.
C6_SaveLoadRoundTrip ==
    \A s \in {__init__(_save_data(blood_inventory, donation_records))} :
    /\ s.raised = NoException
    /\ DOMAIN s.blood_inventory = DOMAIN blood_inventory
    /\ \A k \in DOMAIN blood_inventory : s.blood_inventory[k] = blood_inventory[k]
    /\ Len(s.donation_records) = Len(donation_records)
    /\ \A i \in 1 .. Len(donation_records) : s.donation_records[i] = donation_records[i]

\* A store was constructed over the file saved by a store that held an
\* entry of 0 units and a donation and a usage record.
C6_Witness ==
    /\ call.op = "__init__"
    /\ result.kind = "constructed"
    /\ \E k \in DOMAIN blood_inventory : blood_inventory[k] = 0
    /\ \E i, j \in 1 .. Len(donation_records) :
           /\ i < j
           /\ donation_records[i].type = "donation"
           /\ donation_records[j].type = "usage"

\* C7: constructing a store over a missing or malformed file yields an empty
\* inventory and an empty log and lets no error reach the caller.
WellFormedDocument(f) ==
    /\ f.kind = "json"
    /\ f.doc.t = "object"
    /\ DOMAIN f.doc.members = {"blood_inventory", "donation_records"}

C7_LoadNeverRaises ==
    (call.op = "__init__" /\ ~WellFormedDocument(file)) =>
        /\ result.kind = "constructed"
        /\ blood_inventory = EmptyDict
        /\ donation_records = EmptyList

\* C8: delete_blood_type of a type that has an entry succeeds, removes that
\* key and no other from what get_inventory returns, reports the removed
\* unit count, and leaves what get_records returns as it was.
C8_DeleteRemovesOnlyTheEntry ==
    \A blood_type \in DOMAIN blood_inventory :
        \A o \in {delete_blood_type(blood_inventory, donation_records, file, blood_type)} :
           /\ o.result = Returned(TRUE, "Deleted " \o blood_type \o " ("
                              \o int_str(blood_inventory[blood_type]) \o " units removed)")
           /\ DOMAIN get_inventory(o.blood_inventory) = DOMAIN blood_inventory \ {blood_type}
           /\ \A k \in DOMAIN blood_inventory \ {blood_type} :
                  get_inventory(o.blood_inventory)[k] = blood_inventory[k]
           /\ get_records(o.donation_records) = donation_records

\* A type holding units was just deleted while another entry stays and the
\* log holds a record of the deleted type.
C8_Witness ==
    /\ call.op = "delete_blood_type"
    /\ Succeeded
    /\ call.blood_type \notin DOMAIN blood_inventory
    /\ DOMAIN blood_inventory # {}
    /\ result.message = "Deleted " \o call.blood_type \o " (1 units removed)"
    /\ \E i \in 1 .. Len(donation_records) :
           donation_records[i].blood_type = call.blood_type

\* C9: add_blood of a type of the enumeration with units <= 0 returns the
\* failure "Units must be greater than 0", appends no record, creates no
\* entry and changes no balance.
C9_AddRejectsNonPositiveUnits ==
    \A blood_type \in BloodTypes, units \in NonPositiveUnits,
       donor_name \in NameInputs, now \in ClockInputs :
        \A o \in {add_blood(blood_inventory, donation_records, file,
                             blood_type, units, donor_name, now)} :
           /\ o.result = Returned(FALSE, "Units must be greater than 0")
           /\ o.donation_records = donation_records
           /\ DOMAIN o.blood_inventory = DOMAIN blood_inventory
           /\ \A k \in DOMAIN blood_inventory : o.blood_inventory[k] = blood_inventory[k]

\* add_blood of 0 units was just refused for a type without an entry, in a
\* store that holds another entry.
C9_Witness ==
    /\ call.op = "add_blood"
    /\ call.units = 0
    /\ call.blood_type \in BloodTypes
    /\ Failed
    /\ call.blood_type \notin DOMAIN blood_inventory
    /\ DOMAIN blood_inventory # {}

\* C10: remove_blood of a type without an entry fails with "Blood type ...
\* not available" for every units value, positive or not, creates no entry
\* and changes neither the inventory nor the record log.
C10_RemoveUnknownType ==
    \A blood_type \in (BloodTypes \cup TypeInputs) \ DOMAIN blood_inventory,
       units \in UnitInputs, recipient_name \in NameInputs, now \in ClockInputs :
        \A o \in {remove_blood(blood_inventory, donation_records, file,
                                blood_type, units, recipient_name, now)} :
           /\ o.result = Returned(FALSE, "Blood type " \o blood_type \o " not available")
           /\ o.blood_inventory = blood_inventory
           /\ o.donation_records = donation_records

\* remove_blood of a negative unit count was just refused for a type of the
\* enumeration that has no entry, in a store that holds another entry.
C10_Witness ==
    /\ call.op = "remove_blood"
    /\ call.units < 0
    /\ call.blood_type \in BloodTypes
    /\ call.blood_type \notin DOMAIN blood_inventory
    /\ Failed
    /\ result.message = "Blood type " \o call.blood_type \o " not available"
    /\ DOMAIN blood_inventory # {}

\* C11: the set of blood types is closed: add_blood of a type outside
\* {A+, A-, B+, B-, AB+, AB-, O+, O-} fails with "Invalid blood type" and
\* changes nothing, and every key of the inventory and every blood_type of
\* a record is one of these 8 types.
EnumeratedTypes == {"A+", "A-", "B+", "B-", "AB+", "AB-", "O+", "O-"}

\* Blood types outside the enumeration: the one the callers of the model
\* pass, a type in lower case, a type without its sign and the empty text.
OutsideTypes == (TypeInputs \ EnumeratedTypes) \cup {"a+", "AB", ""}

C11_BloodTypesClosed ==
    /\ DOMAIN blood_inventory \subseteq EnumeratedTypes
    /\ \A i \in 1 .. Len(donation_records) :
           donation_records[i].blood_type \in EnumeratedTypes
    /\ \A blood_type \in OutsideTypes, units \in UnitInputs,
          donor_name \in NameInputs, now \in ClockInputs :
           \A o \in {add_blood(blood_inventory, donation_records, file,
                               blood_type, units, donor_name, now)} :
               /\ o.result = Returned(FALSE, "Invalid blood type")
               /\ o.blood_inventory = blood_inventory
               /\ o.donation_records = donation_records
               /\ o.file = file

\* add_blood of a positive unit count was just refused for a type outside
\* the enumeration, in a store that holds an entry and a record.
C11_Witness ==
    /\ call.op = "add_blood"
    /\ call.blood_type \notin EnumeratedTypes
    /\ call.units > 0
    /\ Failed
    /\ result.message = "Invalid blood type"
    /\ DOMAIN blood_inventory # {}
    /\ Len(donation_records) > 0

MutatingOps == {"add_blood", "remove_blood", "delete_blood_type"}

\* C12: every mutating operation either completes fully or has no effect,
\* also when the file write fails: after the call the inventory, the record
\* log and the file are all as they were before it, or the call succeeded
\* and the file holds the inventory and the log the call has produced.
C12_Step ==
    call'.op \in MutatingOps =>
        \/ UNCHANGED <<blood_inventory, donation_records, file>>
        \/ Succeeded' /\ FileMatchesMemory'

C12_AllOrNothing == [][C12_Step]_vars

\* C13: no mutating operation reports success when its write failed: a
\* call of add_blood, remove_blood or delete_blood_type that returns
\* (True, message) has written the inventory and the log of the store to the
\* file; a call whose write failed leaves the file without them and does not
\* return success.
C13_Step ==
    (call'.op \in MutatingOps /\ Succeeded') => FileMatchesMemory'

C13_NoSuccessOnFailedWrite == [][C13_Step]_vars

\* add_blood has just ended by raising OSError out of _save_data: the entry
\* and the record exist in the store and the file is cut short.
C13_Witness ==
    /\ call.op = "add_blood"
    /\ result.kind = "raised"
    /\ result.exc = "OSError"
    /\ file = FileNotJson
    /\ call.blood_type \in DOMAIN blood_inventory
    /\ Len(donation_records) = MaxRecords

\* C14: add_blood called with a blank donor name appends a donation record
\* whose donor_name is "Anonymous", remove_blood called with a blank
\* recipient name appends a usage record whose recipient_name is
\* "Anonymous", and no record of the log has a blank counterparty name.
CounterpartyName(r) == IF r.type = "donation" THEN r.donor_name ELSE r.recipient_name

\* The record a call has just appended (every call of the model passes a
\* blank name).
LastRecord == donation_records[Len(donation_records)]

C14_BlankNameDefaulted ==
    /\ \A i \in 1 .. Len(donation_records) : CounterpartyName(donation_records[i]) # ""
    /\ (call.op = "add_blood" /\ Succeeded) => LastRecord.donor_name = "Anonymous"
    /\ (call.op = "remove_blood" /\ Succeeded) => LastRecord.recipient_name = "Anonymous"

\* C15: every call of add_blood, remove_blood or delete_blood_type that
\* fails validation (invalid type, units <= 0, unknown type, insufficient
\* stock) returns (False, message) instead of raising, performs no save, and
\* leaves the inventory, the record log and the file as they were.
RefusedUnchanged(o) ==
    /\ o.result.kind = "returned"
    /\ ~o.result.success
    /\ o.blood_inventory = blood_inventory
    /\ o.donation_records = donation_records
    /\ o.file = file

AllTypes == EnumeratedTypes \cup OutsideTypes

C15_ValidationFailureChangesNothing ==
    /\ \A blood_type \in AllTypes, units \in UnitInputs,
          donor_name \in NameInputs, now \in ClockInputs :
           (blood_type \notin EnumeratedTypes \/ units <= 0) =>
               \A o \in {add_blood(blood_inventory, donation_records, file,
                                   blood_type, units, donor_name, now)} :
                   RefusedUnchanged(o)
    /\ \A blood_type \in AllTypes, units \in UnitInputs,
          recipient_name \in NameInputs, now \in ClockInputs :
           (\/ blood_type \notin DOMAIN blood_inventory
            \/ units <= 0
            \/ units > blood_inventory[blood_type]) =>
               \A o \in {remove_blood(blood_inventory, donation_records, file,
                                      blood_type, units, recipient_name, now)} :
                   RefusedUnchanged(o)
    /\ \A blood_type \in AllTypes \ DOMAIN blood_inventory :
           \A o \in {delete_blood_type(blood_inventory, donation_records, file,
                                       blood_type)} :
               RefusedUnchanged(o)

\* delete_blood_type was just refused for a type without an entry, in a
\* store that holds an entry and records and has saved them.
C15_Witness ==
    /\ call.op = "delete_blood_type"
    /\ Failed
    /\ call.blood_type \in EnumeratedTypes
    /\ result.message = "Blood type " \o call.blood_type \o " not found"
    /\ DOMAIN blood_inventory # {}
    /\ Len(donation_records) > 0
    /\ file.kind = "json"

\* C16: a type that was added and then fully depleted stays known: after
\* remove_blood has brought its balance to exactly 0 its key is still in the
\* inventory with the value 0, a further remove_blood of units > 0 fails
\* with "Insufficient stock. Available: 0 units", and delete_blood_type of
\* it succeeds reporting 0 units.
C16_DepletedTypeStaysKnown ==
    \A blood_type \in DOMAIN blood_inventory, units \in PositiveUnits,
       recipient_name \in NameInputs, now \in ClockInputs :
        units = blood_inventory[blood_type] =>
            \A o \in {remove_blood(blood_inventory, donation_records, file,
                                   blood_type, units, recipient_name, now)} :
                /\ o.result.success
                /\ blood_type \in DOMAIN o.blood_inventory
                /\ o.blood_inventory[blood_type] = 0
                /\ \A more \in PositiveUnits :
                       remove_blood(o.blood_inventory, o.donation_records, o.file,
                                    blood_type, more, recipient_name, now).result
                           = Returned(FALSE, "Insufficient stock. Available: 0 units")
                /\ delete_blood_type(o.blood_inventory, o.donation_records, o.file,
                                     blood_type).result
                       = Returned(TRUE, "Deleted " \o blood_type \o " (0 units removed)")

\* remove_blood was just refused for lack of stock on an entry that an
\* earlier remove_blood had emptied.
C16_Witness ==
    /\ call.op = "remove_blood"
    /\ call.units > 0
    /\ Failed
    /\ result.message = "Insufficient stock. Available: 0 units"
    /\ call.blood_type \in DOMAIN blood_inventory
    /\ blood_inventory[call.blood_type] = 0
    /\ Len(donation_records) >= 2
    /\ LastRecord.type = "usage"
    /\ LastRecord.blood_type = call.blood_type

\* C18: every record of the log is well formed: its type is "donation" or
\* "usage", its units is a positive integer, it has a donor_name and no
\* recipient_name exactly when it is a donation, and a recipient_name and no
\* donor_name exactly when it is a usage.
WellFormedRecord(r) ==
    /\ r.type \in {"donation", "usage"}
    /\ r.units \in Nat \ {0}
    /\ ("donor_name" \in DOMAIN r /\ "recipient_name" \notin DOMAIN r) <=> r.type = "donation"
    /\ ("recipient_name" \in DOMAIN r /\ "donor_name" \notin DOMAIN r) <=> r.type = "usage"

C18_RecordsWellFormed ==
    \A i \in 1 .. Len(donation_records) : WellFormedRecord(donation_records[i])

\* A store constructed over a saved file holds a donation and a usage
\* record, read back from the file.
C18_Witness ==
    /\ call.op = "__init__"
    /\ result.kind = "constructed"
    /\ Len(donation_records) = MaxRecords
    /\ \E i \in 1 .. Len(donation_records) : donation_records[i].type = "donation"
    /\ \E i \in 1 .. Len(donation_records) :
           /\ donation_records[i].type = "usage"
           /\ donation_records[i].units = MaxUnits

\* C20: deleting a type makes it unknown again: right after a successful
\* delete_blood_type of it, remove_blood of it (any units) fails with "Blood
\* type ... not available" and a second delete_blood_type fails with "Blood
\* type ... not found"; and add_blood of a type without an entry, deleted
\* before or never added, sets its balance to exactly the units added.
C20_DeletedTypeIsUnknown ==
    /\ \A blood_type \in DOMAIN blood_inventory,
          name \in NameInputs, now \in ClockInputs :
           \A d \in {delete_blood_type(blood_inventory, donation_records, file,
                                       blood_type)} :
               /\ d.result.success
               /\ \A units \in UnitInputs :
                      remove_blood(d.blood_inventory, d.donation_records, d.file,
                                   blood_type, units, name, now).result
                          = Returned(FALSE, "Blood type " \o blood_type \o " not available")
               /\ delete_blood_type(d.blood_inventory, d.donation_records, d.file,
                                    blood_type).result
                      = Returned(FALSE, "Blood type " \o blood_type \o " not found")
               /\ \A units \in PositiveUnits :
                      \A a \in {add_blood(d.blood_inventory, d.donation_records, d.file,
                                          blood_type, units, name, now)} :
                          /\ a.result.success
                          /\ a.blood_inventory[blood_type] = units
    /\ \A blood_type \in EnumeratedTypes \ DOMAIN blood_inventory,
          units \in PositiveUnits, name \in NameInputs, now \in ClockInputs :
           \A a \in {add_blood(blood_inventory, donation_records, file,
                               blood_type, units, name, now)} :
               /\ a.result.success
               /\ a.blood_inventory[blood_type] = units

\* add_blood of 1 unit has just succeeded for a type that held MaxUnits units
\* when it was deleted: the log holds both donations and the balance is 1.
C20_Witness ==
    /\ call.op = "add_blood"
    /\ Succeeded
    /\ call.units = 1
    /\ Len(donation_records) = 2
    /\ donation_records[1].type = "donation"
    /\ donation_records[1].blood_type = call.blood_type
    /\ donation_records[1].units = MaxUnits
    /\ LastRecord.type = "donation"
    /\ blood_inventory[call.blood_type] = 1

(***************************************************************************)
(* C19: the balance of a type is what its records say.                     *)
(***************************************************************************)
\* What a record adds to the balance of blood_type.
SignedUnits(record, blood_type) ==
    IF record.blood_type # blood_type THEN 0
    ELSE IF record.type = "donation" THEN record.units
    ELSE IF record.type = "usage" THEN 0 - record.units
    ELSE 0

\* Donated minus used units of blood_type in the records after the first n.
RECURSIVE NetUnits(_, _, _)
NetUnits(recs, blood_type, n) ==
    IF n >= Len(recs) THEN 0
    ELSE SignedUnits(recs[n + 1], blood_type) + NetUnits(recs, blood_type, n + 1)

\* C19: starting from an empty store, after any sequence of operations, the
\* balance of every blood type that has an entry equals the units of its
\* donation records minus the units of its usage records, counting only the
\* records appended after the most recent successful delete_blood_type of the
\* type (all of its records if it was never deleted).
C19_BalanceMatchesLog ==
    \A blood_type \in DOMAIN blood_inventory :
        /\ blood_type \in BloodTypes
        /\ blood_inventory[blood_type]
               = NetUnits(donation_records, blood_type, deleted_at[blood_type])

\* A type that held MaxUnits units was deleted after its first donation and
\* has been given 1 unit since: its balance is 1 although its records donate
\* MaxUnits + 1.
C19_Witness ==
    \E blood_type \in DOMAIN blood_inventory :
        /\ deleted_at[blood_type] = 1
        /\ Len(donation_records) = 2
        /\ donation_records[1].blood_type = blood_type
        /\ donation_records[1].units = MaxUnits
        /\ donation_records[2].blood_type = blood_type
        /\ blood_inventory[blood_type] = 1
        /\ NetUnits(donation_records, blood_type, 0) = MaxUnits + 1

(***************************************************************************)
(* C17: what the accessors return.                                         *)
(***************************************************************************)
\* The caller holds a value an accessor has returned.
Holding == held.ref # "none"

\* C17: get_inventory and get_records return read-only snapshots: calling
\* them changes neither the store nor the file; a value they returned still
\* shows, after any later add_blood, remove_blood or delete_blood_type, the
\* balances or records of the moment it was obtained; and the caller cannot
\* change the inventory or the log of the store through it.
C17_Step ==
    /\ call'.op \in {"get_inventory", "get_records"}
           => UNCHANGED <<blood_inventory, donation_records, file>>
    /\ (Holding /\ call'.op \in MutatingOps)
           => SeenThrough(held', blood_inventory', donation_records') = held'.taken
    /\ call'.op = "clear"
           => UNCHANGED <<blood_inventory, donation_records>>

C17_ReadOnlySnapshots == [][C17_Step]_vars

====
